---- MODULE Spec2Model ----
(***************************************************************************)
(* A model of src/custom_timetables.py: sixteen Airflow timetables, each   *)
(* answering infer_manual_data_interval(run_after) and                     *)
(* next_dagrun_info(last_automated_data_interval, restriction).            *)
(*                                                                         *)
(* Time.  An instant is a record [t, off]: t is the number of seconds      *)
(* since 2024-01-01T00:00:00Z (a Monday) and off is the UTC offset, in     *)
(* hours, of the timezone the pendulum DateTime object is expressed in.    *)
(* Instants compare by t alone (aware datetimes compare as instants);      *)
(* .year, .month, .day, .hour, .minute, .day_of_week and .replace() read   *)
(* and write the wall clock at off.  Timezones are fixed-offset zones      *)
(* (no DST transition is modelled) and instants are whole seconds (the     *)
(* code sets microsecond=0 on everything it returns).                      *)
(* day_of_week is Monday=0 .. Sunday=6, as the source's comments assume.   *)
(***************************************************************************)
EXTENDS Integers, Sequences, FiniteSets, TLC

VARIABLES rule, now, last, runs, out, calls

vars == <<rule, now, last, runs, out, calls>>

(***************************************************************************)
(* Civil-time arithmetic (the pendulum calls the source makes).  The       *)
(* conversions are the usual era-based ones for the proleptic Gregorian    *)
(* calendar, written as a chain of operators, each passing on what the     *)
(* next needs.                                                             *)
(***************************************************************************)
SecPerDay == 24 * 60 * 60

\* Day of the 400-year era from the year of the era and the day of the
\* (March-based) year.
DayOfEra(yoe, doy) == yoe * 365 + yoe \div 4 - yoe \div 100 + doy

\* Day number of the civil date whose March-based year is yy and whose
\* March-based month is mp: days since 2024-01-01, which is day 739191 of
\* the count that starts on 0000-03-01.
DayNumberMarch(yy, mp, d) ==
    (yy \div 400) * 146097 + DayOfEra(yy % 400, (153 * mp + 2) \div 5 + d - 1) - 739191

\* Day number of a civil date: days since 2024-01-01.
DayNumber(y, m, d) ==
    IF m <= 2 THEN DayNumberMarch(y - 1, m + 9, d) ELSE DayNumberMarch(y, m - 3, d)

\* The civil date [y, m, d] of a day number, step by step.
CivilFromMonth(y0, d, m) == [y |-> y0 + (IF m <= 2 THEN 1 ELSE 0), m |-> m, d |-> d]

CivilFromMp(y0, doy, mp) ==
    CivilFromMonth(y0, doy - (153 * mp + 2) \div 5 + 1, IF mp < 10 THEN mp + 3 ELSE mp - 9)

CivilFromDoy(y0, doy) == CivilFromMp(y0, doy, (5 * doy + 2) \div 153)

CivilFromYoe(era, doe, yoe) ==
    CivilFromDoy(yoe + era * 400, doe - (365 * yoe + yoe \div 4 - yoe \div 100))

CivilFromDoe(era, doe) ==
    CivilFromYoe(era, doe,
                 (doe - doe \div 1460 + doe \div 36524 - doe \div 146096) \div 365)

CivilFromZ(z) == CivilFromDoe(z \div 146097, z % 146097)

CivilFromDay(n) == CivilFromZ(n + 739191)

\* pendulum.datetime(y, m, d, h, mi, s, tz=off) given the day number.
AtLocal(day, h, mi, s, off) ==
    [t |-> day * SecPerDay + h * 3600 + mi * 60 + s - off * 3600, off |-> off]

\* pendulum.datetime(year, month, day, hour, minute, second, tz=tz)
MkDateTime(y, m, d, h, mi, s, off) == AtLocal(DayNumber(y, m, d), h, mi, s, off)

LocalSec(i)  == i.t + i.off * 3600
LocalDay(i)  == LocalSec(i) \div SecPerDay
YearOf(i)    == CivilFromDay(LocalDay(i)).y
MonthOf(i)   == CivilFromDay(LocalDay(i)).m
HourOf(i)    == (LocalSec(i) % SecPerDay) \div 3600
MinuteOf(i)  == (LocalSec(i) % 3600) \div 60
DayOf(i)     == CivilFromDay(LocalDay(i)).d

\* day_of_week of a day number and of an instant: Monday = 0 .. Sunday = 6.
DowOfDay(day) == day % 7
DayOfWeek(i)  == DowOfDay(LocalDay(i))

\* dt.add(days=..., hours=..., minutes=..., seconds=...) in a fixed-offset zone.
AddSeconds(i, s) == [t |-> i.t + s, off |-> i.off]
AddDays(i, d)    == AddSeconds(i, d * SecPerDay)
AddHours(i, h)   == AddSeconds(i, h * 3600)
AddMinutes(i, m) == AddSeconds(i, m * 60)

\* dt.replace(hour=h, minute=mi, second=s, microsecond=0): same zone, same day.
ReplaceTime(i, h, mi, s) == AtLocal(LocalDay(i), h, mi, s, i.off)

\* dt.in_timezone(tz): the same instant expressed at another offset.
InTimezone(i, off) == [t |-> i.t, off |-> off]

\* The last calendar day of (year, month) as a day number:
\* datetime(next month, 1).subtract(days=1).
LastDayNumber(y, m) ==
    (IF m = 12 THEN DayNumber(y + 1, 1, 1) ELSE DayNumber(y, m + 1, 1)) - 1

\* (datetime(next month, 1) - duration(days=1)).day: the month's length.
LastDayOfMonth(y, m) == CivilFromDay(LastDayNumber(y, m)).d

(***************************************************************************)
(* Values.                                                                 *)
(***************************************************************************)
NoInstant == [t |-> 0, off |-> 0]

\* An optional instant or interval (None in the source).
None    == [some |-> FALSE, v |-> NoInstant]
Some(i) == [some |-> TRUE, v |-> i]

\* The outcome of a call: an interval (DataInterval / DagRunInfo.interval),
\* None ("no further run"), or an exception leaving the call.
Produced(s, e) == [kind |-> "interval", start |-> s, end |-> e, exc |-> "-"]
NoRun          == [kind |-> "none", start |-> NoInstant, end |-> NoInstant, exc |-> "-"]
Raised(x)      == [kind |-> "raise", start |-> NoInstant, end |-> NoInstant, exc |-> x]

\* The result of a helper that returns a DateTime or raises.
Found(i)  == [ok |-> TRUE, v |-> i, exc |-> "-"]
Failed(x) == [ok |-> FALSE, v |-> NoInstant, exc |-> x]

NoInterval == [some |-> FALSE, start |-> NoInstant, end |-> NoInstant]
SomeInterval(s, e) == [some |-> TRUE, start |-> s, end |-> e]

(***************************************************************************)
(* Bounds of the model.                                                    *)
(***************************************************************************)
\* Days a day-by-day ordinal scan may walk in the model before it is cut.
\* A scan for a nonzero n ends within 7*|n| days; the scan for n = 0 never
\* meets its exit test and, in the source, walks back to date.min, where
\* subtract() raises OverflowError.
MaxScanDays == 45

\* The last year of the calendar (datetime.MAXYEAR): pendulum's
\* datetime(year, ...) accepts years up to 9999 and raises
\* ValueError("year 10000 is out of range") beyond.
MaxYear == 9999

\* Steps of the EveryNDays backward walk in the model.
MaxBackSteps == 3

\* Length of a chain of next-run calls the host makes in the model.
MaxRuns == 3

(***************************************************************************)
(* The clock.  pendulum.now(tz) returns the current instant expressed in   *)
(* tz.  `datetime` is imported from pendulum (line 20), where it is the    *)
(* function pendulum.datetime(year, month, day, ...): it has no attribute  *)
(* `now`, so evaluating datetime.now(tz) raises AttributeError.            *)
(***************************************************************************)
PendulumNow(off, clock) == Found([t |-> clock, off |-> off])

DatetimeNow(off, clock) == Failed("AttributeError")

(***************************************************************************)
(* Baseline resolver: the block every next_dagrun_info repeats.            *)
(***************************************************************************)
\* max(a, b) of Python: b only when b > a.
MaxInstant(a, b) == IF b.t > a.t THEN b ELSE a

\* baseline = restriction.earliest or current_time;
\* if not restriction.catchup: baseline = max(baseline, current_time)
Baseline(restriction, current_time) ==
    IF ~restriction.catchup
    THEN MaxInstant(IF restriction.earliest.some THEN restriction.earliest.v
                    ELSE current_time,
                    current_time)
    ELSE IF restriction.earliest.some THEN restriction.earliest.v
    ELSE current_time

\* A resolver that would restart from the last interval's start instead of
\* its end.
ResolveAfter_from_start(lastInterval, restriction, current_time) ==
    IF ~lastInterval.some
    THEN Baseline(restriction, current_time)
    ELSE IF ~restriction.catchup /\ lastInterval.start.t < current_time.t
         THEN current_time
         ELSE lastInterval.start

\* The instant the search starts from (`after` / `next_run` in the source).
ResolveAfter(lastInterval, restriction, current_time) ==
    IF ~lastInterval.some
    THEN Baseline(restriction, current_time)
    ELSE IF ~restriction.catchup /\ lastInterval.end.t < current_time.t
         THEN current_time
         ELSE lastInterval.end

\* if restriction.latest is not None and start > restriction.latest: return None
CutAtLatest(start, end, restriction) ==
    IF restriction.latest.some /\ start.t > restriction.latest.v.t
    THEN NoRun
    ELSE Produced(start, end)

\* DataInterval(start, start.add(hours=1)) around a located start, or the
\* exception the search raised.
HourInterval(s) == IF s.ok THEN Produced(s.v, AddHours(s.v, 1)) ELSE Raised(s.exc)

\* The same, ending with the restriction.latest test.
HourIntervalCut(s, restriction) ==
    IF s.ok THEN CutAtLatest(s.v, AddHours(s.v, 1), restriction) ELSE Raised(s.exc)

(***************************************************************************)
(* The occurrence of one period, family by family.  A rule r is the        *)
(* object's fields: fam, tz (a UTC offset), hour, minute, second and the   *)
(* family's own parameters.                                                *)
(***************************************************************************)
\* .replace(hour=self.hour, minute=self.minute, second=self.second) on a
\* date of the rule's timezone, given as a day number.
AtRuleTime(r, day) == AtLocal(day, r.hour, r.minute, r.second, r.tz)

\* MonthlyLastDay._get_last_day
MonthlyLastDay_get_last_day(r, year, month) ==
    Found(AtRuleTime(r, LastDayNumber(year, month)))

\* day = min(self.day, last_day); datetime(year, month, day, ...)
ClampedDay(r, year, month, day) ==
    IF day < 1 THEN Failed("ValueError")
    ELSE Found(AtRuleTime(r, DayNumber(year, month, day)))

MinInt(a, b) == IF b < a THEN b ELSE a

\* A run date built from the configured day as it is, without the clamp.
MonthlyOnDay_get_run_date_unclamped(r, year, month) ==
    ClampedDay(r, year, month, r.day)

\* MonthlyOnDay._get_run_date: the day is clamped to the month's last day.
MonthlyOnDay_get_run_date(r, year, month) ==
    ClampedDay(r, year, month, MinInt(r.day, LastDayOfMonth(year, month)))

\* The first month of the quarter of `month`.
QuarterFirstMonth(month) ==
    IF month \in {1, 2, 3} THEN 1
    ELSE IF month \in {4, 5, 6} THEN 4
    ELSE IF month \in {7, 8, 9} THEN 7
    ELSE 10

\* QuarterlyFirstDay._get_first_day_of_quarter
QuarterlyFirstDay_get_first_day_of_quarter(r, year, month) ==
    Found(AtRuleTime(r, DayNumber(year, QuarterFirstMonth(month), 1)))

\* QuarterlyLastDay._get_last_day_of_quarter: last_month is 3, 6, 9 or 12.
QuarterlyLastDay_get_last_day_of_quarter(r, year, month) ==
    Found(AtRuleTime(r, LastDayNumber(year, QuarterFirstMonth(month) + 2)))

\* YearlyFirstDay._get_first_day_of_year
YearlyFirstDay_get_first_day_of_year(r, year) ==
    Found(AtRuleTime(r, DayNumber(year, 1, 1)))

\* The test of an ordinal scan: dt.day_of_week < 5 (business day) or
\* dt.day_of_week == self.weekday.
Qualifies(day, business, weekday) ==
    IF business THEN DowOfDay(day) < 5 ELSE DowOfDay(day) = weekday

\* The forward ordinal scan of _get_nth_weekday / _get_nth_business_day
\* (n > 0): from `day`, count the qualifying days until the n-th.  The
\* result is a day number, or "cut" after MaxScanDays steps.
RECURSIVE ScanForward(_, _, _, _, _, _)
ScanForward(day, business, weekday, n, count, steps) ==
    IF Qualifies(day, business, weekday) /\ count + 1 = n
    THEN [cut |-> FALSE, day |-> day, steps |-> steps]
    ELSE IF steps >= MaxScanDays THEN [cut |-> TRUE, day |-> day, steps |-> steps]
    ELSE ScanForward(day + 1, business, weekday, n,
                     IF Qualifies(day, business, weekday) THEN count + 1 ELSE count,
                     steps + 1)

\* The backward scan (n <= 0): from the month's last day, count starts at
\* -1 and is decremented on each qualifying day that is not the n-th.
RECURSIVE ScanBackward(_, _, _, _, _, _)
ScanBackward(day, business, weekday, n, count, steps) ==
    IF Qualifies(day, business, weekday) /\ n = count
    THEN [cut |-> FALSE, day |-> day, steps |-> steps]
    ELSE IF steps >= MaxScanDays THEN [cut |-> TRUE, day |-> day, steps |-> steps]
    ELSE ScanBackward(day - 1, business, weekday, n,
                      IF Qualifies(day, business, weekday) THEN count - 1 ELSE count,
                      steps + 1)

\* A scan whose forward count would start at one.
OrdinalScan_count_from_one(year, month, business, weekday, n) ==
    IF n > 0
    THEN ScanForward(DayNumber(year, month, 1), business, weekday, n, 1, 0)
    ELSE ScanBackward(LastDayNumber(year, month), business, weekday, n, -1, 0)

\* The scan of one month: forward from day 1 when n > 0, else backward from
\* the last day.
OrdinalScan(year, month, business, weekday, n) ==
    IF n > 0
    THEN ScanForward(DayNumber(year, month, 1), business, weekday, n, 0, 0)
    ELSE ScanBackward(LastDayNumber(year, month), business, weekday, n, -1, 0)

\* The date a scan ends on, at the rule's time.  A scan the model cuts is
\* one that never meets its exit test (n = 0): in the source it goes on,
\* one day at a time, until the date arithmetic raises OverflowError.
ScanResult(r, s) ==
    IF s.cut THEN Failed("OverflowError") ELSE Found(AtRuleTime(r, s.day))

\* MonthlyWeekdayOccurrence._get_nth_weekday
MonthlyWeekdayOccurrence_get_nth_weekday(r, year, month) ==
    ScanResult(r, OrdinalScan(year, month, FALSE, r.weekday, r.n))

\* YearlyWeekdayOccurrence._get_nth_weekday: the month is the configured one.
YearlyWeekdayOccurrence_get_nth_weekday(r, year) ==
    ScanResult(r, OrdinalScan(year, r.month, FALSE, r.weekday, r.n))

\* BusinessDayOfMonth._get_nth_business_day
BusinessDayOfMonth_get_nth_business_day(r, year, month) ==
    ScanResult(r, OrdinalScan(year, month, TRUE, 0, r.n))

\* A single step back instead of the loop.
BackToWeekday_one_step(day) == IF DowOfDay(day) > 4 THEN day - 1 ELSE day

\* while last_day.day_of_week > 4: last_day = last_day.subtract(days=1)
RECURSIVE BackToWeekday(_)
BackToWeekday(day) == IF DowOfDay(day) > 4 THEN BackToWeekday(day - 1) ELSE day

\* MonthlyLastDayExceptWeekend._get_last_day
MonthlyLastDayExceptWeekend_get_last_day(r, year, month) ==
    Found(AtRuleTime(r, BackToWeekday(LastDayNumber(year, month))))

(***************************************************************************)
(* The period-anchored families: MonthlyLastDay, MonthlyOnDay,             *)
(* MonthlyWeekdayOccurrence, BusinessDayOfMonth,                           *)
(* MonthlyLastDayExceptWeekend, QuarterlyFirstDay, QuarterlyLastDay,       *)
(* YearlyFirstDay, YearlyWeekdayOccurrence.  Their two operations have the *)
(* same shape in the source and differ in the getter and the period step.  *)
(***************************************************************************)
MonthFamilies ==
    {"MonthlyLastDay", "MonthlyOnDay", "MonthlyWeekdayOccurrence",
     "BusinessDayOfMonth", "MonthlyLastDayExceptWeekend"}

QuarterFamilies == {"QuarterlyFirstDay", "QuarterlyLastDay"}

YearFamilies == {"YearlyFirstDay", "YearlyWeekdayOccurrence"}

PeriodFamilies == MonthFamilies \cup QuarterFamilies \cup YearFamilies

\* The occurrence of the period that holds (year, month).
PeriodOccurrence(r, year, month) ==
    CASE r.fam = "MonthlyLastDay" -> MonthlyLastDay_get_last_day(r, year, month)
      [] r.fam = "MonthlyOnDay" -> MonthlyOnDay_get_run_date(r, year, month)
      [] r.fam = "MonthlyWeekdayOccurrence" ->
            MonthlyWeekdayOccurrence_get_nth_weekday(r, year, month)
      [] r.fam = "BusinessDayOfMonth" ->
            BusinessDayOfMonth_get_nth_business_day(r, year, month)
      [] r.fam = "MonthlyLastDayExceptWeekend" ->
            MonthlyLastDayExceptWeekend_get_last_day(r, year, month)
      [] r.fam = "QuarterlyFirstDay" ->
            QuarterlyFirstDay_get_first_day_of_quarter(r, year, month)
      [] r.fam = "QuarterlyLastDay" ->
            QuarterlyLastDay_get_last_day_of_quarter(r, year, month)
      [] r.fam = "YearlyFirstDay" -> YearlyFirstDay_get_first_day_of_year(r, year)
      [] r.fam = "YearlyWeekdayOccurrence" ->
            YearlyWeekdayOccurrence_get_nth_weekday(r, year)

PeriodOccurrenceAt(r, p) == PeriodOccurrence(r, p.y, p.m)

\* "Go to previous month / quarter / year" of infer_manual_data_interval.
PrevPeriod(r, year, month) ==
    CASE r.fam \in MonthFamilies ->
            IF month = 1 THEN [y |-> year - 1, m |-> 12]
            ELSE [y |-> year, m |-> month - 1]
      [] r.fam = "QuarterlyFirstDay" ->
            IF month \in {1, 2, 3} THEN [y |-> year - 1, m |-> 10]
            ELSE IF month \in {4, 5, 6} THEN [y |-> year, m |-> 1]
            ELSE IF month \in {7, 8, 9} THEN [y |-> year, m |-> 4]
            ELSE [y |-> year, m |-> 7]
      [] r.fam = "QuarterlyLastDay" ->
            IF month \in {1, 2, 3} THEN [y |-> year - 1, m |-> 12]
            ELSE IF month \in {4, 5, 6} THEN [y |-> year, m |-> 3]
            ELSE IF month \in {7, 8, 9} THEN [y |-> year, m |-> 6]
            ELSE [y |-> year, m |-> 9]
      [] r.fam \in YearFamilies -> [y |-> year - 1, m |-> month]

\* "Move to next month / quarter / year" of next_dagrun_info's loop.
NextPeriod(r, year, month) ==
    CASE r.fam \in MonthFamilies ->
            IF month = 12 THEN [y |-> year + 1, m |-> 1]
            ELSE [y |-> year, m |-> month + 1]
      [] r.fam \in QuarterFamilies ->
            IF month \in {1, 2, 3} THEN [y |-> year, m |-> 4]
            ELSE IF month \in {4, 5, 6} THEN [y |-> year, m |-> 7]
            ELSE IF month \in {7, 8, 9} THEN [y |-> year, m |-> 10]
            ELSE [y |-> year + 1, m |-> 1]
      [] r.fam \in YearFamilies -> [y |-> year + 1, m |-> month]

\* if run_after < occurrence: go to the previous period and take its
\* occurrence; `first` is the occurrence of run_after's own period.
PeriodManualPick(r, run_after, year, month, first) ==
    IF ~first.ok THEN first
    ELSE IF run_after.t < first.v.t
         THEN PeriodOccurrenceAt(r, PrevPeriod(r, year, month))
         ELSE first

\* The start infer_manual_data_interval settles on: year = run_after.year,
\* month = run_after.month, as run_after itself shows them.
PeriodManualStart(r, run_after, year, month) ==
    PeriodManualPick(r, run_after, year, month, PeriodOccurrence(r, year, month))

\* infer_manual_data_interval of a period family.
PeriodManual(r, run_after) ==
    HourInterval(PeriodManualStart(r, run_after, YearOf(run_after), MonthOf(run_after)))

\* The loop of next_dagrun_info: while True: occurrence of (year, month);
\* break when it is >= after; else step to the next period.
RECURSIVE PeriodWalk(_, _, _, _)
RECURSIVE PeriodWalkTest(_, _, _, _, _)
RECURSIVE PeriodWalkOn(_, _, _)
PeriodWalk(r, after, year, month) ==
    PeriodWalkTest(r, after, year, month, PeriodOccurrence(r, year, month))

PeriodWalkTest(r, after, year, month, o) ==
    IF ~o.ok THEN o
    ELSE IF o.v.t >= after.t THEN o
    ELSE PeriodWalkOn(r, after, NextPeriod(r, year, month))

PeriodWalkOn(r, after, p) == PeriodWalk(r, after, p.y, p.m)

\* The search of a period family from `after`: year = after.year,
\* month = after.month, then the loop.
PeriodSearch(r, after) == PeriodWalk(r, after, YearOf(after), MonthOf(after))

\* Families whose next_dagrun_info ends with the restriction.latest test.
ChecksLatest ==
    {"MonthlyLastDay", "MonthlyOnDay", "MonthlyMultipleDays", "QuarterlyFirstDay",
     "QuarterlyLastDay", "YearlyFirstDay", "YearlyWeekdayOccurrence",
     "EveryNInterval"}

\* Families whose next_dagrun_info reads the clock with pendulum.now(tz);
\* the others call datetime.now(tz).
UsesPendulumNow ==
    {"MonthlyLastDay", "MonthlyOnDay", "MonthlyMultipleDays", "QuarterlyFirstDay",
     "QuarterlyLastDay", "YearlyFirstDay", "YearlyWeekdayOccurrence",
     "EveryNInterval"}

\* current_time = pendulum.now(tz) or datetime.now(tz), by family.
CurrentTime(r, clock) ==
    IF r.fam \in UsesPendulumNow THEN PendulumNow(r.tz, clock)
    ELSE DatetimeNow(r.tz, clock)

\* The end of next_dagrun_info: the interval of one hour from the located
\* start, after the restriction.latest test where the family has one.
FinishNext(r, s, restriction) ==
    IF r.fam \in ChecksLatest THEN HourIntervalCut(s, restriction) ELSE HourInterval(s)

\* next_dagrun_info of a period family, from the clock reading on.
PeriodNextFrom(r, lastInterval, restriction, current_time) ==
    FinishNext(r, PeriodSearch(r, ResolveAfter(lastInterval, restriction, current_time)),
               restriction)

(***************************************************************************)
(* WeeklyOnDay, BiweeklyOnDay, SemiMonthly, MonthlyMultipleDays: one       *)
(* search helper serves both operations.                                   *)
(***************************************************************************)
\* days_ahead of WeeklyOnDay._get_next_weekday: the hour and the minute of
\* `after` are compared one by one.
WeeklyOnDay_days_ahead(r, after, d0) ==
    IF d0 = 0 /\ HourOf(after) >= r.hour /\ MinuteOf(after) >= r.minute THEN 7 ELSE d0

\* WeeklyOnDay._get_next_weekday: the result keeps after's own timezone.
WeeklyOnDay_get_next_weekday(r, after) ==
    Found(ReplaceTime(
            AddDays(after,
                    WeeklyOnDay_days_ahead(r, after, (r.weekday - DayOfWeek(after) + 7) % 7)),
            r.hour, r.minute, r.second))

\* anchor.add(days=days_to_weekday).replace(...): the first configured
\* weekday on or after the anchor day.
FirstWeekdayFrom(r, anchor) ==
    AtRuleTime(r, anchor + ((r.weekday - DowOfDay(anchor) + 7) % 7))

\* first_run of BiweeklyOnDay (pendulum.parse(anchor_date, tz=tz) is the
\* midnight of that date in the rule's timezone).
BiweeklyOnDay_first_run(r) ==
    FirstWeekdayFrom(r, DayNumber(r.anchor_date.y, r.anchor_date.m, r.anchor_date.d))

\* cycles = (delta_days // 14)
\*          + (0 if after <= first_run.add(days=13, hours=23, minutes=59, seconds=59) else 1)
BiweeklyOnDay_cycles(first_run, after) ==
    (((after.t - first_run.t) \div SecPerDay) \div 14)
    + (IF after.t <= first_run.t + 13 * SecPerDay + 23 * 3600 + 59 * 60 + 59 THEN 0 ELSE 1)

\* A bump of one week instead of two.
BiweeklyOnDay_bump_one_week(next_run, after) ==
    IF next_run.t <= after.t THEN AddDays(next_run, 7) ELSE next_run

\* if next_run <= after: next_run = next_run.add(weeks=2)
BiweeklyOnDay_bump(next_run, after) ==
    IF next_run.t <= after.t THEN AddDays(next_run, 14) ELSE next_run

BiweeklyOnDay_from(first_run, after) ==
    IF after.t < first_run.t THEN Found(first_run)
    ELSE Found(BiweeklyOnDay_bump(
                 AddDays(first_run, 7 * (BiweeklyOnDay_cycles(first_run, after) * 2)),
                 after))

\* BiweeklyOnDay._get_next_biweekly
BiweeklyOnDay_get_next_biweekly(r, after) ==
    BiweeklyOnDay_from(BiweeklyOnDay_first_run(r), after)

\* min(a, b) of Python: b only when b < a.
MinInstant(a, b) == IF b.t < a.t THEN b ELSE a

NextMonth(year, month) ==
    IF month = 12 THEN [y |-> year + 1, m |-> 1] ELSE [y |-> year, m |-> month + 1]

\* A first pass that would return the later of the two candidates.
SemiMonthly_next_month_latest(r, p) ==
    MaxInstant(AtRuleTime(r, DayNumber(p.y, p.m, 15)), AtRuleTime(r, LastDayNumber(p.y, p.m)))

\* The while-loop of SemiMonthly._get_next_run_date: its first pass returns
\* min(fifteenth, last) of the next month.
SemiMonthly_next_month(r, p) ==
    MinInstant(AtRuleTime(r, DayNumber(p.y, p.m, 15)), AtRuleTime(r, LastDayNumber(p.y, p.m)))

\* candidates = [dt for dt in [fifteenth, last] if dt >= after];
\* min(candidates) if there is one.
SemiMonthly_pick(r, after, year, month, fifteenth, lastd) ==
    IF fifteenth.t >= after.t /\ lastd.t >= after.t THEN Found(MinInstant(fifteenth, lastd))
    ELSE IF fifteenth.t >= after.t THEN Found(fifteenth)
    ELSE IF lastd.t >= after.t THEN Found(lastd)
    ELSE Found(SemiMonthly_next_month(r, NextMonth(year, month)))

SemiMonthly_in_month(r, after, year, month) ==
    SemiMonthly_pick(r, after, year, month,
                     AtRuleTime(r, DayNumber(year, month, 15)),
                     AtRuleTime(r, LastDayNumber(year, month)))

\* SemiMonthly._get_next_run_date: year = after.year, month = after.month.
SemiMonthly_get_next_run_date(r, after) ==
    SemiMonthly_in_month(r, after, YearOf(after), MonthOf(after))

\* sorted(set(days)) of MonthlyMultipleDays.__init__, as a sequence.
RECURSIVE SortedSeq(_)
SortedSeq(S) ==
    IF S = {} THEN <<>>
    ELSE LET m == CHOOSE x \in S : \A y \in S : x <= y
         IN  <<m>> \o SortedSeq(S \ {m})

\* A filter that would leave out the month's last day.
ValidDays_before_last(days, last_day) == SelectSeq(days, LAMBDA d : 1 <= d /\ d < last_day)

\* valid_days = [d for d in self.days if 1 <= d <= last_day]
ValidDays(days, last_day) == SelectSeq(days, LAMBDA d : 1 <= d /\ d <= last_day)

\* for d in valid_days: candidate = datetime(year, month, d, ...);
\* if candidate >= after: return candidate
RECURSIVE FirstCandidate(_, _, _, _, _)
FirstCandidate(r, after, year, month, valid_days) ==
    IF valid_days = <<>> THEN Failed("-")
    ELSE IF AtRuleTime(r, DayNumber(year, month, Head(valid_days))).t >= after.t
         THEN Found(AtRuleTime(r, DayNumber(year, month, Head(valid_days))))
         ELSE FirstCandidate(r, after, year, month, Tail(valid_days))

\* last_day, before the for-loop and in every pass of the while-loop: in
\* December it is (datetime(year + 1, 1, 1, tz=tz) - duration(days=1)).day,
\* and the constructor raises ValueError for a year after the calendar's
\* last.
MonthlyMultipleDays_last_day(p) ==
    IF p.m = 12 /\ p.y + 1 > MaxYear THEN [ok |-> FALSE, v |-> 0, exc |-> "ValueError"]
    ELSE [ok |-> TRUE, v |-> LastDayOfMonth(p.y, p.m), exc |-> "-"]

\* One pass of the while-loop of MonthlyMultipleDays._get_next_run_date at
\* the month p it has stepped to: return the month's first valid day,
\* whatever `after` is.  Failed("-") stands for a pass that returns
\* nothing, after which the loop steps to the next month.
MonthlyMultipleDays_walk_pick(r, p, valid_days) ==
    IF valid_days # <<>> THEN Found(AtRuleTime(r, DayNumber(p.y, p.m, Head(valid_days))))
    ELSE Failed("-")

MonthlyMultipleDays_walk_test(r, p, last_day) ==
    IF ~last_day.ok THEN Failed(last_day.exc)
    ELSE MonthlyMultipleDays_walk_pick(r, p, ValidDays(r.days, last_day.v))

\* n consecutive passes of the loop, the first at month p: the outcome of
\* the first pass that returns or raises.  The passes are taken in order,
\* the first half of them before the second.
RECURSIVE MonthlyMultipleDays_passes(_, _, _)
RECURSIVE MonthlyMultipleDays_resume(_, _, _, _)
MonthlyMultipleDays_passes(r, p, n) ==
    IF n <= 1 THEN MonthlyMultipleDays_walk_test(r, p, MonthlyMultipleDays_last_day(p))
    ELSE MonthlyMultipleDays_resume(r, p, n, MonthlyMultipleDays_passes(r, p, n \div 2))

MonthlyMultipleDays_resume(r, p, n, first) ==
    IF first.ok \/ first.exc # "-" THEN first
    ELSE MonthlyMultipleDays_passes(r,
             [y |-> p.y + (p.m - 1 + n \div 2) \div 12,
              m |-> ((p.m - 1 + n \div 2) % 12) + 1],
             n - n \div 2)

\* The while-loop from month p on.  It has no exit of its own: when no
\* month has a valid day it goes on until the last_day of the calendar's
\* last December raises, so it makes at most as many passes as there are
\* months from p to that December.
MonthlyMultipleDays_walk(r, p) ==
    MonthlyMultipleDays_passes(r, p, (MaxYear - p.y) * 12 + 13 - p.m)

MonthlyMultipleDays_or_walk(r, year, month, here) ==
    IF here.ok THEN here ELSE MonthlyMultipleDays_walk(r, NextMonth(year, month))

MonthlyMultipleDays_in_month(r, after, year, month) ==
    IF ~MonthlyMultipleDays_last_day([y |-> year, m |-> month]).ok
    THEN Failed(MonthlyMultipleDays_last_day([y |-> year, m |-> month]).exc)
    ELSE MonthlyMultipleDays_or_walk(r, year, month,
             FirstCandidate(r, after, year, month,
                 ValidDays(r.days, MonthlyMultipleDays_last_day([y |-> year, m |-> month]).v)))

\* MonthlyMultipleDays._get_next_run_date: year = after.year,
\* month = after.month.
MonthlyMultipleDays_get_next_run_date(r, after) ==
    MonthlyMultipleDays_in_month(r, after, YearOf(after), MonthOf(after))

HelperFamilies == {"WeeklyOnDay", "BiweeklyOnDay", "SemiMonthly", "MonthlyMultipleDays"}

\* The search helper of the family.
HelperSearch(r, after) ==
    CASE r.fam = "WeeklyOnDay" -> WeeklyOnDay_get_next_weekday(r, after)
      [] r.fam = "BiweeklyOnDay" -> BiweeklyOnDay_get_next_biweekly(r, after)
      [] r.fam = "SemiMonthly" -> SemiMonthly_get_next_run_date(r, after)
      [] r.fam = "MonthlyMultipleDays" -> MonthlyMultipleDays_get_next_run_date(r, after)

\* infer_manual_data_interval of these families:
\* next_run = helper(run_after); DataInterval(next_run, next_run + 1 hour)
HelperManual(r, run_after) == HourInterval(HelperSearch(r, run_after))

\* next_dagrun_info of these families, from the clock reading on.  Only
\* MonthlyMultipleDays tests restriction.latest.
HelperNextFrom(r, lastInterval, restriction, current_time) ==
    FinishNext(r, HelperSearch(r, ResolveAfter(lastInterval, restriction, current_time)),
               restriction)

(***************************************************************************)
(* EveryNDays and EveryNInterval.                                          *)
(***************************************************************************)
\* A walk that would also step back from base = run_after.
RECURSIVE EveryNDays_walk_back_strict(_, _, _, _)
EveryNDays_walk_back_strict(r, base, run_after, steps) ==
    IF ~(base.t >= run_after.t) THEN Found(base)
    ELSE IF steps >= MaxBackSteps THEN Failed("hang")
    ELSE EveryNDays_walk_back_strict(r, AddDays(base, -r.interval_days), run_after,
                                     steps + 1)

\* while base > run_after: base = base.subtract(days=self.interval_days)
\* The model cuts the walk after MaxBackSteps steps ("hang").
RECURSIVE EveryNDays_walk_back(_, _, _, _)
EveryNDays_walk_back(r, base, run_after, steps) ==
    IF ~(base.t > run_after.t) THEN Found(base)
    ELSE IF steps >= MaxBackSteps THEN Failed("hang")
    ELSE EveryNDays_walk_back(r, AddDays(base, -r.interval_days), run_after, steps + 1)

\* DataInterval(start, start.add(days=self.interval_days))
EveryNDays_interval(r, s) ==
    IF s.ok THEN Produced(s.v, AddDays(s.v, r.interval_days)) ELSE Raised(s.exc)

\* EveryNDays.infer_manual_data_interval
EveryNDays_infer_manual_data_interval(r, run_after) ==
    EveryNDays_interval(r,
        EveryNDays_walk_back(r,
            ReplaceTime(InTimezone(run_after, r.tz), r.hour, r.minute, r.second),
            run_after, 0))

\* if aligned < next_run: aligned = aligned.add(days=1)
EveryNDays_bump(aligned, next_run) ==
    IF aligned.t < next_run.t THEN AddDays(aligned, 1) ELSE aligned

\* The alignment of EveryNDays.next_dagrun_info: the configured time of day
\* on next_run's day (in next_run's timezone), one day later when that is
\* before next_run.
EveryNDays_align(r, next_run) ==
    Found(EveryNDays_bump(ReplaceTime(next_run, r.hour, r.minute, r.second), next_run))

\* EveryNDays.next_dagrun_info, from the clock reading on.
EveryNDays_next_from(r, lastInterval, restriction, current_time) ==
    EveryNDays_interval(r,
        EveryNDays_align(r, ResolveAfter(lastInterval, restriction, current_time)))

\* The configuration error of the module:
\* raise ValueError("At least one of interval_minutes or interval_hours must be > 0")
ConfigurationError == "ValueError"

\* total_minutes = self.interval_hours * 60 + self.interval_minutes
TotalMinutes(r) == r.interval_hours * 60 + r.interval_minutes

\* anchor.add(minutes=(minutes_since_anchor // total_minutes) * total_minutes)
\* with minutes_since_anchor = int((x - anchor).total_minutes()).
GridFloor(anchor, x, total_minutes) ==
    AddMinutes(anchor, (((x.t - anchor.t) \div 60) \div total_minutes) * total_minutes)

\* The grid point at or before x on the grid anchored at the midnight of
\* x's own day (x.replace(hour=0, minute=0, second=0, microsecond=0)).
EveryNInterval_floor(r, x) == GridFloor(ReplaceTime(x, 0, 0, 0), x, TotalMinutes(r))

\* DataInterval(start=aligned, end=aligned + interval)
EveryNInterval_interval(r, start) == Produced(start, AddMinutes(start, TotalMinutes(r)))

\* A zero test that would look at interval_minutes alone.
EveryNInterval_infer_manual_minutes_only(r, run_after) ==
    IF r.interval_minutes = 0 THEN Raised(ConfigurationError)
    ELSE EveryNInterval_interval(r, EveryNInterval_floor(r, run_after))

\* EveryNInterval.infer_manual_data_interval
EveryNInterval_infer_manual_data_interval(r, run_after) ==
    IF TotalMinutes(r) = 0 THEN Raised(ConfigurationError)
    ELSE EveryNInterval_interval(r, EveryNInterval_floor(r, run_after))

\* if aligned < baseline: aligned = aligned.add(minutes=total_minutes)
EveryNInterval_bump(r, aligned, baseline) ==
    IF aligned.t < baseline.t THEN AddMinutes(aligned, TotalMinutes(r)) ELSE aligned

\* The alignment of the baseline in EveryNInterval.next_dagrun_info.
EveryNInterval_align(r, baseline) ==
    Found(EveryNInterval_bump(r, EveryNInterval_floor(r, baseline), baseline))

\* next_start = last_automated_data_interval.end, or aligned when there is
\* no last interval or its end is before aligned.
EveryNInterval_next_start(lastInterval, aligned) ==
    IF lastInterval.some
    THEN (IF lastInterval.end.t < aligned.t THEN aligned ELSE lastInterval.end)
    ELSE aligned

\* if restriction.latest and next_start > restriction.latest: return None
EveryNInterval_finish(r, next_start, restriction) ==
    CutAtLatest(next_start, AddMinutes(next_start, TotalMinutes(r)), restriction)

\* EveryNInterval.next_dagrun_info: the zero test comes first, then the
\* clock (pendulum.now), the aligned baseline, and the last interval's end.
EveryNInterval_next_dagrun_info(r, lastInterval, restriction, clock) ==
    IF TotalMinutes(r) = 0 THEN Raised(ConfigurationError)
    ELSE EveryNInterval_finish(r,
            EveryNInterval_next_start(lastInterval,
                EveryNInterval_align(r,
                    Baseline(restriction, PendulumNow(r.tz, clock).v)).v),
            restriction)

(***************************************************************************)
(* The two operations of a rule, and its next-occurrence search.           *)
(***************************************************************************)
\* infer_manual_data_interval(run_after)
infer_manual_data_interval(r, run_after) ==
    CASE r.fam \in PeriodFamilies -> PeriodManual(r, run_after)
      [] r.fam \in HelperFamilies -> HelperManual(r, run_after)
      [] r.fam = "EveryNDays" -> EveryNDays_infer_manual_data_interval(r, run_after)
      [] r.fam = "EveryNInterval" -> EveryNInterval_infer_manual_data_interval(r, run_after)

\* next_dagrun_info once current_time has been read.
NextFrom(r, lastInterval, restriction, c) ==
    IF ~c.ok THEN Raised(c.exc)
    ELSE CASE r.fam \in PeriodFamilies -> PeriodNextFrom(r, lastInterval, restriction, c.v)
           [] r.fam \in HelperFamilies -> HelperNextFrom(r, lastInterval, restriction, c.v)
           [] r.fam = "EveryNDays" -> EveryNDays_next_from(r, lastInterval, restriction, c.v)

\* next_dagrun_info(last_automated_data_interval, restriction) at clock time
\* `clock`.  The clock is read first (after the zero test of EveryNInterval);
\* an exception raised there leaves the call.
next_dagrun_info(r, lastInterval, restriction, clock) ==
    IF r.fam = "EveryNInterval"
    THEN EveryNInterval_next_dagrun_info(r, lastInterval, restriction, clock)
    ELSE NextFrom(r, lastInterval, restriction, CurrentTime(r, clock))

\* The search each family runs from its search instant: the occurrence it
\* locates at or after `after` (or the exception it raises).
LocateNext(r, after) ==
    CASE r.fam \in PeriodFamilies -> PeriodSearch(r, after)
      [] r.fam \in HelperFamilies -> HelperSearch(r, after)
      [] r.fam = "EveryNDays" -> EveryNDays_align(r, after)
      [] r.fam = "EveryNInterval" ->
            IF TotalMinutes(r) = 0 THEN Failed(ConfigurationError)
            ELSE EveryNInterval_align(r, after)

(***************************************************************************)
(* The rules, instants and restrictions the model explores.                *)
(***************************************************************************)
\* Time of day and timezone of a rule: <<hour, minute, second, UTC offset>>.
RuleClocks ==
    {<<0, 0, 0, 0>>, <<9, 30, 0, 0>>, <<18, 30, 0, 0>>, <<9, 30, 0, 9>>, <<0, 0, 0, 9>>}

\* A rule of family fam with the constructors' defaults for the other fields.
BaseRule(fam, c) ==
    [fam |-> fam, hour |-> c[1], minute |-> c[2], second |-> c[3], tz |-> c[4],
     day |-> 1, days |-> <<1>>, weekday |-> 0, n |-> 1, month |-> 1,
     interval_days |-> 1, interval_minutes |-> 0, interval_hours |-> 0,
     anchor_date |-> [y |-> 2024, m |-> 1, d |-> 1]]

PlainFamilies ==
    {"MonthlyLastDay", "QuarterlyFirstDay", "QuarterlyLastDay", "YearlyFirstDay",
     "SemiMonthly", "MonthlyLastDayExceptWeekend"}

OrdinalFamilies ==
    {"MonthlyWeekdayOccurrence", "YearlyWeekdayOccurrence", "BusinessDayOfMonth"}

Rules ==
    {BaseRule(f, c) : f \in PlainFamilies, c \in RuleClocks}
    \cup {[BaseRule("MonthlyOnDay", c) EXCEPT !.day = d] :
            c \in RuleClocks, d \in {15, 31}}
    \cup {[BaseRule("MonthlyMultipleDays", c) EXCEPT !.days = SortedSeq(D)] :
            c \in RuleClocks, D \in {{1, 15}, {31}}}
    \cup {[BaseRule("MonthlyWeekdayOccurrence", c) EXCEPT !.n = k] :
            c \in RuleClocks, k \in {2, 5, -1, 0}}
    \cup {[BaseRule("YearlyWeekdayOccurrence", c) EXCEPT !.n = k, !.month = 3] :
            c \in RuleClocks, k \in {2, -1, 0}}
    \cup {[BaseRule("BusinessDayOfMonth", c) EXCEPT !.n = k] :
            c \in RuleClocks, k \in {1, -1, 0}}
    \cup {[BaseRule("WeeklyOnDay", c) EXCEPT !.weekday = w] :
            c \in RuleClocks, w \in {0, 4}}
    \cup {[BaseRule("BiweeklyOnDay", c) EXCEPT !.anchor_date.d = d] :
            c \in RuleClocks, d \in {1, 3}}
    \cup {[BaseRule("EveryNDays", c) EXCEPT !.interval_days = k] :
            c \in RuleClocks, k \in {0, 1, 3}}
    \cup {[BaseRule("EveryNInterval", <<0, 0, 0, z>>)
             EXCEPT !.interval_minutes = p[1], !.interval_hours = p[2]] :
            z \in {0, 9}, p \in {<<0, 0>>, <<90, 0>>, <<0, 6>>, <<30, 1>>, <<0, 7>>}}

\* A configuration the spec calls valid: a nonzero ordinal, a nonzero
\* interval length, a day list with a day of the calendar.
ValidRule(r) ==
    /\ r.fam = "MonthlyMultipleDays" => ValidDays(r.days, 31) # <<>>
    /\ r.fam \in OrdinalFamilies => r.n # 0
    /\ r.fam = "EveryNInterval" => TotalMinutes(r) > 0
    /\ r.fam = "EveryNDays" => r.interval_days > 0

\* Reference and search instants, as the host passes them (in UTC).
ProbeDays ==
    {DayNumber(2023, 3, 1), DayNumber(2023, 12, 31), DayNumber(2024, 1, 1), DayNumber(2024, 1, 8),
     DayNumber(2024, 1, 15), DayNumber(2024, 1, 31), DayNumber(2024, 2, 10),
     DayNumber(2024, 2, 29), DayNumber(2024, 3, 2), DayNumber(2024, 3, 31),
     DayNumber(2024, 4, 1)}

ProbeTimes ==
    {<<0, 0, 0>>, <<1, 0, 0>>, <<9, 30, 0>>, <<9, 45, 0>>, <<10, 5, 0>>, <<20, 0, 0>>}

Instants == {AtLocal(d, c[1], c[2], c[3], 0) : d \in ProbeDays, c \in ProbeTimes}

\* Distances, in seconds, between the two instants of a monotonicity probe.
Deltas == {0, 20 * 60, SecPerDay, 14 * SecPerDay}

\* The clock readings of the host.
Clock1 == MkDateTime(2024, 1, 1, 10, 5, 0, 0).t
Clock2 == MkDateTime(2024, 1, 2, 12, 0, 0, 0).t
Clock3 == MkDateTime(2024, 2, 10, 0, 0, 0, 0).t
Clocks == {Clock1, Clock2, Clock3}

Earliests == {None, Some(MkDateTime(2023, 12, 20, 0, 0, 0, 0))}
Latests   == {None, Some(MkDateTime(2024, 1, 1, 0, 0, 0, 0))}

\* TimeRestriction(earliest, latest, catchup)
Restrictions ==
    {[earliest |-> e, latest |-> l, catchup |-> c] :
        e \in Earliests, l \in Latests, c \in BOOLEAN}

NoRestriction == [earliest |-> None, latest |-> None, catchup |-> TRUE]

(***************************************************************************)
(* serialize / deserialize.  The serialized form is a dict, modelled as a  *)
(* function from keys to values; deserialize reads it with                 *)
(* data.get(key, default) and calls the constructor.                       *)
(***************************************************************************)
\* The keys each family's serialize() writes.  YearlyWeekdayOccurrence
\* defines no serialize: it inherits Timetable.serialize, which returns {}.
SerializedKeys(fam) ==
    CASE fam \in PlainFamilies -> {"tz", "hour", "minute", "second"}
      [] fam = "MonthlyOnDay" -> {"day", "tz", "hour", "minute", "second"}
      [] fam = "MonthlyMultipleDays" -> {"days", "tz", "hour", "minute", "second"}
      [] fam = "WeeklyOnDay" -> {"weekday", "tz", "hour", "minute", "second"}
      [] fam = "BiweeklyOnDay" ->
            {"weekday", "tz", "hour", "minute", "second", "anchor_date"}
      [] fam = "MonthlyWeekdayOccurrence" ->
            {"weekday", "n", "tz", "hour", "minute", "second"}
      [] fam = "EveryNDays" -> {"interval_days", "tz", "hour", "minute", "second"}
      [] fam = "BusinessDayOfMonth" -> {"n", "tz", "hour", "minute", "second"}
      [] fam = "EveryNInterval" -> {"interval_minutes", "interval_hours", "tz"}
      [] fam = "YearlyWeekdayOccurrence" -> {}

\* serialize(self)
serialize(r) == [k \in SerializedKeys(r.fam) |-> r[k]]

\* The keys each family's deserialize() reads and hands to the constructor.
DeserializedKeys(fam) ==
    CASE fam \in PlainFamilies -> {"tz", "hour", "minute", "second"}
      [] fam = "MonthlyOnDay" -> {"day", "tz", "hour", "minute", "second"}
      [] fam = "MonthlyMultipleDays" -> {"days", "tz", "hour", "minute", "second"}
      [] fam = "WeeklyOnDay" -> {"weekday", "tz", "hour", "minute", "second"}
      [] fam = "BiweeklyOnDay" ->
            {"weekday", "tz", "hour", "minute", "second", "anchor_date"}
      [] fam = "MonthlyWeekdayOccurrence" ->
            {"weekday", "n", "tz", "hour", "minute", "second"}
      [] fam = "EveryNDays" -> {"interval_days", "tz", "hour", "minute", "second"}
      [] fam = "BusinessDayOfMonth" -> {"n", "tz", "hour", "minute", "second"}
      [] fam = "EveryNInterval" -> {"interval_minutes", "interval_hours", "tz"}
      [] fam = "YearlyWeekdayOccurrence" -> {}

\* The defaults of data.get(key, default): tz "America/New_York" (UTC-5 in
\* the model), hour, minute, second 0, and the family defaults of BaseRule.
DefaultRule(fam) == BaseRule(fam, <<0, 0, 0, -5>>)

\* data.get(key, default)
DictGet(data, key, default) == IF key \in DOMAIN data THEN data[key] ELSE default

\* What the constructor stores for a key: MonthlyMultipleDays keeps
\* sorted(set(days)), every other argument is stored as given.
Stored(key, value) ==
    IF key = "days" THEN SortedSeq({value[i] : i \in DOMAIN value}) ELSE value

\* The outcome of deserialize: a rule, or the exception raised.
Rebuilt(r) == [ok |-> TRUE, v |-> r, exc |-> "-"]
NotRebuilt(fam, x) == [ok |-> FALSE, v |-> DefaultRule(fam), exc |-> x]

\* deserialize(cls, data).  YearlyWeekdayOccurrence inherits
\* Timetable.deserialize, which calls cls() without arguments: its
\* constructor requires month, weekday and n, so the call raises TypeError.
deserialize(fam, data) ==
    IF fam = "YearlyWeekdayOccurrence" THEN NotRebuilt(fam, "TypeError")
    ELSE Rebuilt([k \in DOMAIN DefaultRule(fam) |->
                    IF k \in DeserializedKeys(fam)
                    THEN Stored(k, DictGet(data, k, DefaultRule(fam)[k]))
                    ELSE DefaultRule(fam)[k]])

(***************************************************************************)
(* The state machine.  rule is the timetable object (its fields never      *)
(* change), now the host's clock, last the last automated data interval    *)
(* the host holds, runs the number of intervals produced so far, and out   *)
(* the latest call with its arguments and outcome; calls holds the calls  *)
(* in progress when several callers evaluate the rule step by step.        *)
(***************************************************************************)
\* The day-by-day scan a period getter of an ordinal family makes for
\* (year, month); the other families make none.
NoScan == [cut |-> FALSE, day |-> 0, steps |-> 0]

RuleScan(r, year, month) ==
    CASE r.fam = "MonthlyWeekdayOccurrence" ->
            OrdinalScan(year, month, FALSE, r.weekday, r.n)
      [] r.fam = "YearlyWeekdayOccurrence" ->
            OrdinalScan(year, r.month, FALSE, r.weekday, r.n)
      [] r.fam = "BusinessDayOfMonth" -> OrdinalScan(year, month, TRUE, 0, r.n)
      [] OTHER -> NoScan

NoCall ==
    [op |-> "init", t1 |-> NoInstant, t2 |-> NoInstant, last |-> NoInterval,
     restriction |-> NoRestriction, clock |-> 0, res |-> NoRun,
     r1 |-> Failed("-"), r2 |-> Failed("-"),
     rt |-> NotRebuilt("-", "-"),
     p |-> [year |-> 0, month |-> 0], scan |-> NoScan,
     clock2 |-> 0, res2 |-> NoRun]

\* The callers that may be inside a call of the rule at the same time.
Procs == {1, 2}

\* A call that would keep the walk's year and month on the rule object,
\* where every caller finds the same pair.
Slot_shared(p) == 1

\* Where caller p keeps `year` and `month` during a call: they are local
\* variables of the call, one pair per activation.
Slot(p) == p

\* The local variables of a call in progress: the program position, the
\* arguments, the search instant and the outcome.
IdleFrame ==
    [pc |-> "idle", op |-> "-", t1 |-> NoInstant, last |-> NoInterval,
     restriction |-> NoRestriction, clock |-> 0, after |-> NoInstant, res |-> NoRun]

NoCalls == [frame |-> [p \in Procs |-> IdleFrame], cursor |-> [p \in Procs |-> [y |-> 0, m |-> 0]]]

Init ==
    /\ rule \in Rules
    /\ now = Clock1
    /\ last = NoInterval
    /\ runs = 0
    /\ out = NoCall
    /\ calls = NoCalls

\* The host records the outcome of a next-run call; a produced interval
\* becomes the last automated data interval.
RecordNext(restriction, res) ==
    /\ out' = [NoCall EXCEPT !.op = "next", !.last = last, !.restriction = restriction,
                             !.clock = now, !.res = res]
    /\ last' = IF res.kind = "interval" THEN SomeInterval(res.start, res.end) ELSE last
    /\ runs' = IF res.kind = "interval" THEN runs + 1 ELSE runs

\* The host asks for the next run.
NextRun ==
    /\ runs < MaxRuns
    /\ \E restriction \in Restrictions :
         RecordNext(restriction, next_dagrun_info(rule, last, restriction, now))
    /\ UNCHANGED <<rule, now, calls>>

\* Time passes.
Tick ==
    /\ \E c \in Clocks : c > now /\ now' = c
    /\ UNCHANGED <<rule, last, runs, out, calls>>

\* A manual trigger at a reference instant, on the rule as constructed.
Manual ==
    /\ out.op = "init"
    /\ \E run_after \in Instants :
         out' = [NoCall EXCEPT !.op = "manual", !.t1 = run_after,
                               !.res = infer_manual_data_interval(rule, run_after)]
    /\ UNCHANGED <<rule, now, last, runs, calls>>

\* The next-occurrence search applied to two instants t1 <= t2.
LocatePair(t1, t2) ==
    out' = [NoCall EXCEPT !.op = "locate", !.t1 = t1, !.t2 = t2,
                          !.r1 = LocateNext(rule, t1), !.r2 = LocateNext(rule, t2)]

Locate ==
    /\ out.op = "init"
    /\ \E t1 \in Instants, d \in Deltas : LocatePair(t1, AddSeconds(t1, d))
    /\ UNCHANGED <<rule, now, last, runs, calls>>

Next == NextRun \/ Tick \/ Manual

Spec == Init /\ [][Next]_vars

\* The host stores the rule and loads it again.
RoundTrip ==
    /\ out.op = "init"
    /\ out' = [NoCall EXCEPT !.op = "roundtrip",
                             !.rt = deserialize(rule.fam, serialize(rule))]
    /\ UNCHANGED <<rule, now, last, runs, calls>>

\* The period getter of a period family applied to one (year, month).
Occurrence ==
    /\ out.op = "init"
    /\ rule.fam \in PeriodFamilies
    /\ \E year \in {2023, 2024}, month \in 1..12 :
         out' = [NoCall EXCEPT !.op = "occurrence",
                               !.p = [year |-> year, month |-> month],
                               !.r1 = PeriodOccurrence(rule, year, month),
                               !.scan = RuleScan(rule, year, month)]
    /\ UNCHANGED <<rule, now, last, runs, calls>>

\* Reference instants of the intervals the host may hold as the last one.
LastProbes == {MkDateTime(2024, 1, 1, 0, 0, 0, 0), MkDateTime(2024, 1, 1, 10, 5, 0, 0)}

\* Intervals the rule has produced: DataInterval(start, end) values returned
\* by the rule itself.
ProducedIntervals(r) ==
    {SomeInterval(x.start, x.end) :
        x \in {y \in {infer_manual_data_interval(r, t) : t \in LastProbes} :
                  y.kind = "interval"}}

\* The same next-run call evaluated at two readings of the clock.
Compare ==
    /\ out.op = "init"
    /\ \E lastInterval \in {NoInterval} \cup ProducedIntervals(rule),
          restriction \in Restrictions, c1 \in Clocks, c2 \in Clocks :
         /\ c1 < c2
         /\ out' = [NoCall EXCEPT
                      !.op = "compare", !.last = lastInterval,
                      !.restriction = restriction, !.clock = c1, !.clock2 = c2,
                      !.res = next_dagrun_info(rule, lastInterval, restriction, c1),
                      !.res2 = next_dagrun_info(rule, lastInterval, restriction, c2)]
    /\ UNCHANGED <<rule, now, last, runs, calls>>

\* The evaluations without a clock: manual triggers and searches on a
\* rule as constructed.
NextEval == Manual \/ Locate \/ RoundTrip \/ Occurrence \/ Compare

SpecEval == Init /\ [][NextEval]_vars

(***************************************************************************)
(* Calls in progress.  Each caller runs one call at a time, statement by   *)
(* statement, and the callers interleave.  The period families take one    *)
(* step per pass of the loop of next_dagrun_info and per getter call of    *)
(* infer_manual_data_interval; a call of another family, and a call whose  *)
(* clock reading raises, has no loop over periods and is one step.         *)
(***************************************************************************)
\* next_dagrun_info up to the loop: the clock, the search instant, and
\* year = after.year, month = after.month.
BeginNext(p) ==
    /\ calls.frame[p].pc = "idle"
    /\ \E lastInterval \in {NoInterval} \cup ProducedIntervals(rule),
          restriction \in Restrictions :
         calls' =
           IF rule.fam \in PeriodFamilies /\ CurrentTime(rule, now).ok
           THEN [calls EXCEPT
                   !.frame[p] =
                      [IdleFrame EXCEPT
                         !.pc = "walk", !.op = "next", !.last = lastInterval,
                         !.restriction = restriction, !.clock = now,
                         !.after = ResolveAfter(lastInterval, restriction,
                                                CurrentTime(rule, now).v)],
                   !.cursor[Slot(p)] =
                      [y |-> YearOf(ResolveAfter(lastInterval, restriction,
                                                 CurrentTime(rule, now).v)),
                       m |-> MonthOf(ResolveAfter(lastInterval, restriction,
                                                  CurrentTime(rule, now).v))]]
           ELSE [calls EXCEPT
                   !.frame[p] =
                      [IdleFrame EXCEPT
                         !.pc = "done", !.op = "next", !.last = lastInterval,
                         !.restriction = restriction, !.clock = now,
                         !.res = next_dagrun_info(rule, lastInterval, restriction, now)]]
    /\ UNCHANGED <<rule, now, last, runs, out>>

\* One pass of the loop: the occurrence o of (year, month); break and
\* finish when it is >= after (or the getter raised), else step the period.
WalkOn(p, f, c, o) ==
    IF ~o.ok \/ o.v.t >= f.after.t
    THEN [calls EXCEPT !.frame[p] = [f EXCEPT !.pc = "done",
                                              !.res = FinishNext(rule, o, f.restriction)]]
    ELSE [calls EXCEPT !.cursor[Slot(p)] = NextPeriod(rule, c.y, c.m)]

StepWalk(p) ==
    /\ calls.frame[p].pc = "walk"
    /\ calls' = WalkOn(p, calls.frame[p], calls.cursor[Slot(p)],
                       PeriodOccurrenceAt(rule, calls.cursor[Slot(p)]))
    /\ UNCHANGED <<rule, now, last, runs, out>>

\* infer_manual_data_interval up to its first getter call:
\* year = run_after.year, month = run_after.month.
BeginManual(p) ==
    /\ calls.frame[p].pc = "idle"
    /\ \E run_after \in LastProbes :
         calls' =
           IF rule.fam \in PeriodFamilies
           THEN [calls EXCEPT
                   !.frame[p] = [IdleFrame EXCEPT !.pc = "back", !.op = "manual",
                                                  !.t1 = run_after],
                   !.cursor[Slot(p)] = [y |-> YearOf(run_after), m |-> MonthOf(run_after)]]
           ELSE [calls EXCEPT
                   !.frame[p] = [IdleFrame EXCEPT
                                   !.pc = "done", !.op = "manual", !.t1 = run_after,
                                   !.res = infer_manual_data_interval(rule, run_after)]]
    /\ UNCHANGED <<rule, now, last, runs, out>>

\* The first getter call and the test run_after < occurrence: go to the
\* previous period, or finish with this occurrence.
BackOn(p, f, c, o) ==
    IF o.ok /\ f.t1.t < o.v.t
    THEN [calls EXCEPT !.frame[p] = [f EXCEPT !.pc = "prev"],
                       !.cursor[Slot(p)] = PrevPeriod(rule, c.y, c.m)]
    ELSE [calls EXCEPT !.frame[p] = [f EXCEPT !.pc = "done", !.res = HourInterval(o)]]

StepBack(p) ==
    /\ calls.frame[p].pc = "back"
    /\ calls' = BackOn(p, calls.frame[p], calls.cursor[Slot(p)],
                       PeriodOccurrenceAt(rule, calls.cursor[Slot(p)]))
    /\ UNCHANGED <<rule, now, last, runs, out>>

\* The getter call for the previous period, and the interval.
StepPrev(p) ==
    /\ calls.frame[p].pc = "prev"
    /\ calls' = [calls EXCEPT
                   !.frame[p] =
                      [calls.frame[p] EXCEPT
                         !.pc = "done",
                         !.res = HourInterval(
                                    PeriodOccurrenceAt(rule, calls.cursor[Slot(p)]))]]
    /\ UNCHANGED <<rule, now, last, runs, out>>

\* The call returns; its local variables are gone.
Return(p) ==
    /\ calls.frame[p].pc = "done"
    /\ calls' = [calls EXCEPT !.frame[p] = IdleFrame]
    /\ UNCHANGED <<rule, now, last, runs, out>>

NextConc ==
    \E p \in Procs :
        \/ BeginNext(p) \/ StepWalk(p)
        \/ BeginManual(p) \/ StepBack(p) \/ StepPrev(p)
        \/ Return(p)

SpecConc == Init /\ [][NextConc]_vars

(***************************************************************************)
(* The MonthlyMultipleDays search up to the end of the calendar.           *)
(***************************************************************************)
\* A MonthlyMultipleDays rule as constructed from any days list, one
\* without a day of the calendar included.
InitDays ==
    /\ rule \in {[BaseRule("MonthlyMultipleDays", c) EXCEPT !.days = SortedSeq(D)] :
                    c \in {<<0, 0, 0, 0>>, <<9, 30, 0, 9>>},
                    D \in {{1, 15}, {31}, {}, {32}}}
    /\ now = Clock1
    /\ last = NoInterval
    /\ runs = 0
    /\ out = NoCall
    /\ calls = NoCalls

\* The search with a days list that has a day of the calendar.
LocateValid == ValidRule(rule) /\ Locate

\* The search with a days list that has none: whatever the search instant,
\* it makes a pass for every month left in the calendar, about 96,000 of
\* them, so one pair of instants is searched from.
LocateOnce ==
    /\ ~ValidRule(rule)
    /\ out.op = "init"
    /\ LocatePair(MkDateTime(2024, 1, 31, 1, 0, 0, 0), MkDateTime(2024, 2, 14, 1, 0, 0, 0))
    /\ UNCHANGED <<rule, now, last, runs, calls>>

\* The while-loop stepping into the calendar's last December, as in a
\* search from November of that year that finds no candidate left there.
LastDecember ==
    /\ out.op = "init"
    /\ out' = [NoCall EXCEPT !.op = "walk", !.p = [year |-> MaxYear, month |-> 12],
                             !.r1 = MonthlyMultipleDays_walk(rule, [y |-> MaxYear, m |-> 12])]
    /\ UNCHANGED <<rule, now, last, runs, calls>>

NextDays == LocateValid \/ LocateOnce \/ LastDecember

SpecDays == InitDays /\ [][NextDays]_vars

(***************************************************************************)
(* Properties of the next-run operation under restriction.latest.          *)
(***************************************************************************)
\* C1: whenever restriction.latest is set, next_dagrun_info of every family
\* (with a valid configuration) ends either with "no further run" or with
\* an interval that starts at or before restriction.latest; a start later
\* than restriction.latest is answered with None.
C1_LatestRespected ==
    (out.op = "next" /\ ValidRule(rule) /\ out.restriction.latest.some) =>
        \/ out.res.kind = "none"
        \/ /\ out.res.kind = "interval"
           /\ out.res.start.t <= out.restriction.latest.v.t

(***************************************************************************)
(* Properties of the next-occurrence search.                               *)
(***************************************************************************)
\* C2: no-skip.  For every family with a valid configuration and every
\* search instant t, the located occurrence is >= t as a full instant.
C2_NoSkip ==
    (out.op = "locate" /\ ValidRule(rule) /\ out.r1.ok) => out.r1.v.t >= out.t1.t

\* An occurrence of a period family in the half-open range (lo, hi].
OccurrenceWithin(o, lo, hi) == o.ok /\ o.v.t > lo.t /\ o.v.t <= hi.t

\* C3: for the period-anchored families, infer_manual_data_interval(run_after)
\* returns the interval that starts at the latest occurrence at or before
\* run_after: start <= run_after and no period's occurrence lies in
\* (start, run_after].
C3_ManualLatestAtOrBefore ==
    (out.op = "manual" /\ rule.fam \in PeriodFamilies /\ ValidRule(rule)) =>
        /\ out.res.kind = "interval"
        /\ out.res.start.t <= out.t1.t
        /\ \A year \in {2023, 2024}, month \in 1..12 :
              ~OccurrenceWithin(PeriodOccurrence(rule, year, month), out.res.start, out.t1)

\* C4: for WeeklyOnDay, BiweeklyOnDay, SemiMonthly and MonthlyMultipleDays,
\* infer_manual_data_interval(run_after) returns an interval whose start is
\* at or before run_after, never a future occurrence.
C4_HelperManualNotFuture ==
    (out.op = "manual" /\ rule.fam \in HelperFamilies) =>
        /\ out.res.kind = "interval"
        /\ out.res.start.t <= out.t1.t

\* C5: with a valid configuration, next_dagrun_info of every family ends
\* with an interval or with "no further run", never with an exception,
\* whatever the restriction and the last interval.
C5_NextRunNeverRaises ==
    (out.op = "next" /\ ValidRule(rule)) => out.res.kind \in {"interval", "none"}

(***************************************************************************)
(* Chains of next-run calls.                                               *)
(***************************************************************************)
\* C6: strict forward progress.  When next_dagrun_info receives the
\* interval a previous call produced as its last interval and produces an
\* interval, the new start is at or after the last interval's end and
\* strictly after its start, for both catchup settings.
C6_ForwardProgress ==
    (out.op = "next" /\ out.last.some /\ out.res.kind = "interval") =>
        /\ out.res.start.t >= out.last.end.t
        /\ out.res.start.t > out.last.start.t

\* A third run of a chain, produced with catchup off at a clock later than
\* the last interval's end.
C6_Witness ==
    /\ out.op = "next" /\ out.last.some /\ out.res.kind = "interval"
    /\ runs >= 3
    /\ ~out.restriction.catchup
    /\ out.clock > out.last.end.t
    /\ out.res.start.t > out.last.end.t

\* C7: monotonicity.  For every family with a valid configuration and all
\* search instants t1 <= t2, the occurrence located from t2 is >= the
\* occurrence located from t1.
C7_Monotone ==
    (out.op = "locate" /\ ValidRule(rule) /\ out.r1.ok /\ out.r2.ok) =>
        (out.t1.t <= out.t2.t => out.r2.v.t >= out.r1.v.t)

\* C8: catch-up suppression.  With restriction.catchup = False,
\* next_dagrun_info of every family with a valid configuration ends without
\* an error, and an interval it returns starts at or after the clock
\* reading of the call, with or without a last interval.
C8_NoBacklog ==
    (out.op = "next" /\ ValidRule(rule) /\ ~out.restriction.catchup) =>
        /\ out.res.kind \in {"interval", "none"}
        /\ out.res.kind = "interval" => out.res.start.t >= out.clock

(***************************************************************************)
(* Configuration errors.                                                   *)
(***************************************************************************)
\* C9: for MonthlyWeekdayOccurrence, YearlyWeekdayOccurrence and
\* BusinessDayOfMonth, an evaluation with n = 0 ends at once in the
\* configuration error, in both operations.
C9_ZeroOrdinalRejected ==
    (out.op \in {"manual", "next"} /\ rule.fam \in OrdinalFamilies /\ rule.n = 0) =>
        out.res = Raised(ConfigurationError)

\* C10: EveryNInterval with interval_hours * 60 + interval_minutes = 0 ends
\* both operations in the configuration error (ValueError), whatever the
\* reference instant, the restriction and the last interval; with a total
\* > 0 neither operation ends in it.
C10_ZeroIntervalRejected ==
    (out.op \in {"manual", "next"} /\ rule.fam = "EveryNInterval") =>
        ((TotalMinutes(rule) = 0) <=> (out.res = Raised(ConfigurationError)))

\* A next-run call on a zero-length EveryNInterval, with restriction.latest
\* set and catchup off, that ended in ValueError.
C10_Witness ==
    /\ out.op = "next" /\ rule.fam = "EveryNInterval" /\ TotalMinutes(rule) = 0
    /\ out.restriction.latest.some /\ ~out.restriction.catchup
    /\ out.res = Raised("ValueError")

\* C11: EveryNDays with interval_days = 0 is rejected as a configuration
\* error: each of its operations ends in the configuration error, so none
\* returns an interval with end = start and none searches without end.
C11_ZeroDaysRejected ==
    (out.op \in {"manual", "next"} /\ rule.fam = "EveryNDays" /\ rule.interval_days = 0) =>
        out.res = Raised(ConfigurationError)

(***************************************************************************)
(* Serialization.                                                          *)
(***************************************************************************)
\* C12: round trip.  For every family and every rule r,
\* deserialize(serialize(r)) succeeds and yields a rule with the same
\* parameters as r.
C12_RoundTrip ==
    out.op = "roundtrip" => (out.rt.ok /\ out.rt.v = rule)

(***************************************************************************)
(* Occurrences of single families.                                         *)
(***************************************************************************)
\* C13: clamping.  Every interval MonthlyOnDay returns, from the manual
\* operation (which always returns one) and from next_dagrun_info, starts
\* at the configured time on the configured day of its month or, when the
\* month is shorter than that, on the month's last day.
C13_MonthlyOnDayClamped ==
    (out.op \in {"manual", "next"} /\ rule.fam = "MonthlyOnDay") =>
        /\ out.op = "manual" => out.res.kind = "interval"
        /\ out.res.kind \in {"interval", "none"}
        /\ out.res.kind = "interval" =>
             /\ out.res.start.off = rule.tz
             /\ HourOf(out.res.start) = rule.hour
             /\ MinuteOf(out.res.start) = rule.minute
             /\ \/ DayOf(out.res.start) = rule.day
                \/ /\ DayOf(out.res.start) < rule.day
                   /\ MonthOf(AddDays(out.res.start, 1)) # MonthOf(out.res.start)

\* A manual trigger of MonthlyOnDay(day = 31) answered with the 28th of
\* February of a common year.
C13_Witness ==
    /\ out.op = "manual" /\ rule.fam = "MonthlyOnDay" /\ rule.day = 31
    /\ out.res.kind = "interval"
    /\ YearOf(out.res.start) = 2023 /\ MonthOf(out.res.start) = 2
    /\ DayOf(out.res.start) = 28

\* The first configured weekday on or after the anchor date, at the
\* configured time in the rule's timezone.
FirstRunOnOrAfterAnchor(r) ==
    AtLocal(DayNumber(r.anchor_date.y, r.anchor_date.m, r.anchor_date.d)
              + (CHOOSE d \in 0..6 :
                   DowOfDay(DayNumber(r.anchor_date.y, r.anchor_date.m, r.anchor_date.d) + d)
                     = r.weekday),
            r.hour, r.minute, r.second, r.tz)

\* o is the occurrence of the 14-day cycle from first_run that a search
\* from t has to return: first_run itself before the cycle starts, else an
\* instant first_run + 14*k days in [t, t + 14 days].
OnCycleFrom(first_run, t, o) ==
    /\ o.t >= first_run.t
    /\ (o.t - first_run.t) % (14 * SecPerDay) = 0
    /\ IF t.t < first_run.t THEN o = first_run
       ELSE o.t >= t.t /\ o.t <= t.t + 14 * SecPerDay

\* C14: BiweeklyOnDay is locked to a 14-day cycle.  Every occurrence its
\* search returns, and every start of its manual interval, is
\* first_run + 14*k days (k >= 0): the next on-cycle date from the search
\* instant, never the off-cycle weekday.
C14_BiweeklyCycle ==
    (rule.fam = "BiweeklyOnDay" /\ out.op \in {"locate", "manual"}) =>
        IF out.op = "locate"
        THEN /\ out.r1.ok /\ OnCycleFrom(FirstRunOnOrAfterAnchor(rule), out.t1, out.r1.v)
             /\ out.r2.ok /\ OnCycleFrom(FirstRunOnOrAfterAnchor(rule), out.t2, out.r2.v)
        ELSE /\ out.res.kind = "interval"
             /\ OnCycleFrom(FirstRunOnOrAfterAnchor(rule), out.t1, out.res.start)

\* Anchor 2024-01-01 (a Monday), midnight UTC: the search from 2024-01-08
\* returned 2024-01-15.
C14_Witness ==
    /\ out.op = "locate" /\ rule.fam = "BiweeklyOnDay" /\ rule.anchor_date.d = 1
    /\ out.t1 = MkDateTime(2024, 1, 8, 0, 0, 0, 0)
    /\ out.r1 = Found(MkDateTime(2024, 1, 15, 0, 0, 0, 0))

(***************************************************************************)
(* The fixed-interval families.                                            *)
(***************************************************************************)
\* The minutes from the midnight of i's own day (in i's timezone) to i.
MinutesSinceMidnight(i) == (LocalSec(i) % SecPerDay) \div 60

\* C15: EveryNInterval is anchored to midnight.  Every start its
\* next_dagrun_info produces, for the first run and for the later runs of
\* a chain, is midnight + k * total_minutes on the start's own day, for
\* every total_minutes > 0.
C15_MidnightGrid ==
    (out.op = "next" /\ rule.fam = "EveryNInterval" /\ out.res.kind = "interval") =>
        /\ LocalSec(out.res.start) % 60 = 0
        /\ MinutesSinceMidnight(out.res.start) % TotalMinutes(rule) = 0

\* The length, in seconds, the spec gives the interval of a rule: one hour
\* for the calendar and weekday families, interval_days days for
\* EveryNDays, total_minutes minutes for EveryNInterval.
SpecifiedLength(r) ==
    CASE r.fam = "EveryNDays" -> r.interval_days * SecPerDay
      [] r.fam = "EveryNInterval" -> TotalMinutes(r) * 60
      [] OTHER -> 3600

\* C16: every interval returned by infer_manual_data_interval or
\* next_dagrun_info of any family has start < end and the length of its
\* family.
C16_IntervalLength ==
    (out.op \in {"manual", "next"} /\ out.res.kind = "interval") =>
        /\ out.res.start.t < out.res.end.t
        /\ out.res.end.t - out.res.start.t = SpecifiedLength(rule)

\* C17: for EveryNDays with interval_days >= 1, the manual operation ends
\* (its backward walk ends within one step) and returns an interval that
\* covers the reference instant: start <= run_after < end.
C17_EveryNDaysManualCovers ==
    (out.op = "manual" /\ rule.fam = "EveryNDays" /\ rule.interval_days >= 1) =>
        /\ out.res.kind = "interval"
        /\ out.res.start.t <= out.t1.t
        /\ out.t1.t < out.res.end.t
        /\ EveryNDays_walk_back(rule,
               ReplaceTime(InTimezone(out.t1, rule.tz), rule.hour, rule.minute, rule.second),
               out.t1, MaxBackSteps - 1).ok

\* A manual trigger before the configured time of its day: the walk stepped
\* back, and the interval of three days ends on the trigger's day.
C17_Witness ==
    /\ out.op = "manual" /\ rule.fam = "EveryNDays" /\ rule.interval_days = 3
    /\ out.res.kind = "interval"
    /\ LocalDay(out.res.start) + 3 = LocalDay(InTimezone(out.t1, rule.tz))
    /\ out.res.start.t < out.t1.t /\ out.t1.t < out.res.end.t

(***************************************************************************)
(* The period walk of next_dagrun_info.                                    *)
(***************************************************************************)
\* An occurrence of a period family in the half-open range [lo, hi).
OccurrenceFrom(o, lo, hi) == o.ok /\ o.v.t >= lo.t /\ o.v.t < hi.t

\* start is the earliest occurrence of rule r at or after the search
\* instant: no period of the explored years has an occurrence in
\* [search_from, start).
EarliestFrom(r, search_from, start) ==
    /\ start.t >= search_from.t
    /\ \A year \in {2023, 2024, 2025}, month \in 1..12 :
          ~OccurrenceFrom(PeriodOccurrence(r, year, month), search_from, start)

\* C18: for the period-walk families with a valid configuration,
\* next_dagrun_info ends with an interval or with "no further run", and
\* the start of the interval is the earliest occurrence at or after the
\* search instant (the baseline, or the last interval's end).
C18_EarliestAtOrAfter ==
    (out.op = "next" /\ rule.fam \in PeriodFamilies /\ ValidRule(rule)) =>
        /\ out.res.kind \in {"interval", "none"}
        /\ out.res.kind = "interval" =>
             EarliestFrom(rule,
                          ResolveAfter(out.last, out.restriction,
                                       [t |-> out.clock, off |-> rule.tz]),
                          out.res.start)

(***************************************************************************)
(* The ordinal scans.                                                      *)
(***************************************************************************)
\* The month an ordinal rule looks at for the period (year, month): the
\* configured month for YearlyWeekdayOccurrence.
ScannedMonth(r, month) == IF r.fam = "YearlyWeekdayOccurrence" THEN r.month ELSE month

\* The day numbers of a month that fall on weekday w.
WeekdaysIn(year, month, w) ==
    {e \in DayNumber(year, month, 1)..LastDayNumber(year, month) : DowOfDay(e) = w}

\* The n-th day of S counted from its start (n > 0) or from its end (n < 0).
NthOf(S, n) ==
    CHOOSE d \in S :
        Cardinality({e \in S : IF n > 0 THEN e <= d ELSE e >= d}) = (IF n > 0 THEN n ELSE -n)

\* C19: for MonthlyWeekdayOccurrence and YearlyWeekdayOccurrence, when
\* 1 <= |n| <= the number of times the weekday occurs in the month,
\* _get_nth_weekday returns, at the configured time, the n-th such weekday
\* counted from day 1 (n > 0) or the |n|-th counted back from the last day
\* (n < 0).
C19_NthWeekday ==
    (/\ out.op = "occurrence"
     /\ rule.fam \in {"MonthlyWeekdayOccurrence", "YearlyWeekdayOccurrence"}
     /\ rule.n # 0
     /\ Cardinality(WeekdaysIn(out.p.year, ScannedMonth(rule, out.p.month), rule.weekday))
          >= (IF rule.n > 0 THEN rule.n ELSE -rule.n)) =>
        out.r1 = Found(AtLocal(NthOf(WeekdaysIn(out.p.year, ScannedMonth(rule, out.p.month),
                                                rule.weekday),
                                     rule.n),
                               rule.hour, rule.minute, rule.second, rule.tz))

\* Monday, n = 2, 09:30 UTC for 2024-03: the getter returned 2024-03-11T09:30.
C19_Witness ==
    /\ out.op = "occurrence" /\ rule.fam = "MonthlyWeekdayOccurrence"
    /\ rule.weekday = 0 /\ rule.n = 2
    /\ out.p = [year |-> 2024, month |-> 3]
    /\ out.r1 = Found(MkDateTime(2024, 3, 11, 9, 30, 0, 0))

\* C20: for MonthlyWeekdayOccurrence, YearlyWeekdayOccurrence and
\* BusinessDayOfMonth and every nonzero n, the day-by-day scan for a period
\* takes at most 31 steps and returns a date of the scanned month itself.
C20_ScanStaysInMonth ==
    (out.op = "occurrence" /\ rule.fam \in OrdinalFamilies /\ rule.n # 0) =>
        /\ out.r1.ok
        /\ out.scan.steps <= 31
        /\ YearOf(out.r1.v) = out.p.year
        /\ MonthOf(out.r1.v) = ScannedMonth(rule, out.p.month)

(***************************************************************************)
(* Business days.                                                          *)
(***************************************************************************)
\* The day numbers of a month that are not a Saturday or a Sunday.
BusinessDaysIn(year, month) ==
    {e \in DayNumber(year, month, 1)..LastDayNumber(year, month) : DowOfDay(e) \notin {5, 6}}

\* C21: BusinessDayOfMonth with a nonzero n.  The occurrence of a month is
\* its n-th Monday-to-Friday day counted forward from day 1 (n > 0) or its
\* |n|-th counted back from the last day (n < 0), whenever the month has
\* that many; and both infer_manual_data_interval and next_dagrun_info
\* return an interval whose start is not a Saturday or a Sunday.
C21_BusinessDay ==
    (rule.fam = "BusinessDayOfMonth" /\ rule.n # 0) =>
        /\ (/\ out.op = "occurrence"
            /\ Cardinality(BusinessDaysIn(out.p.year, out.p.month))
                 >= (IF rule.n > 0 THEN rule.n ELSE -rule.n)) =>
              out.r1 = Found(AtLocal(NthOf(BusinessDaysIn(out.p.year, out.p.month), rule.n),
                                     rule.hour, rule.minute, rule.second, rule.tz))
        /\ out.op \in {"manual", "next"} =>
              /\ out.res.kind = "interval"
              /\ DayOfWeek(out.res.start) \notin {5, 6}

\* The latest day number of a nonempty set of day numbers.
LatestOf(S) == CHOOSE d \in S : \A e \in S : e <= d

\* C22: the occurrence MonthlyLastDayExceptWeekend gives for a month is, at
\* the configured time, the latest day of that month that is not a Saturday
\* or a Sunday: the last calendar day when that is a weekday, else the
\* Friday one or two days before it.
C22_LastWeekday ==
    (out.op = "occurrence" /\ rule.fam = "MonthlyLastDayExceptWeekend") =>
        /\ out.r1 = Found(AtLocal(LatestOf(BusinessDaysIn(out.p.year, out.p.month)),
                                  rule.hour, rule.minute, rule.second, rule.tz))
        /\ DayOfWeek(out.r1.v) \notin {5, 6}
        /\ YearOf(out.r1.v) = out.p.year /\ MonthOf(out.r1.v) = out.p.month
        /\ IF DowOfDay(LastDayNumber(out.p.year, out.p.month)) <= 4
           THEN LocalDay(out.r1.v) = LastDayNumber(out.p.year, out.p.month)
           ELSE /\ DayOfWeek(out.r1.v) = 4
                /\ LastDayNumber(out.p.year, out.p.month) - LocalDay(out.r1.v) \in {1, 2}

\* March 2024 ends on a Sunday: the occurrence is Friday 2024-03-29.
C22_Witness ==
    /\ out.op = "occurrence" /\ rule.fam = "MonthlyLastDayExceptWeekend"
    /\ out.p = [year |-> 2024, month |-> 3]
    /\ out.r1.ok /\ DayOf(out.r1.v) = 29 /\ MonthOf(out.r1.v) = 3

(***************************************************************************)
(* MonthlyMultipleDays and SemiMonthly.                                    *)
(***************************************************************************)
\* The occurrences of month p when every configured day is clamped to the
\* month's length, as MonthlyOnDay clamps its day.
ClampedOccurrences(r, p) ==
    {AtLocal(DayNumber(p.y, p.m, MinInt(r.days[i], LastDayOfMonth(p.y, p.m))),
             r.hour, r.minute, r.second, r.tz) : i \in DOMAIN r.days}

\* The earliest instant of a nonempty set of instants.
EarliestOf(S) == CHOOSE o \in S : \A x \in S : o.t <= x.t

\* The earliest instant of S at or after t, or else the earliest of T.
EarliestFromOrElse(S, t, T) ==
    IF \E o \in S : o.t >= t.t THEN EarliestOf({o \in S : o.t >= t.t}) ELSE EarliestOf(T)

\* C23: MonthlyMultipleDays keeps its days in strictly ascending order and
\* clamps each of them to the month's length; its search returns the
\* smallest clamped occurrence >= the search instant in the search
\* instant's month, or else the smallest one of the next month.
C23_MultipleDaysClamped ==
    (out.op = "locate" /\ rule.fam = "MonthlyMultipleDays" /\ rule.days # <<>>) =>
        /\ \A i, j \in DOMAIN rule.days : i < j => rule.days[i] < rule.days[j]
        /\ out.r1 =
             Found(EarliestFromOrElse(
                     ClampedOccurrences(rule, [y |-> YearOf(out.t1), m |-> MonthOf(out.t1)]),
                     out.t1,
                     ClampedOccurrences(rule, NextMonth(YearOf(out.t1), MonthOf(out.t1)))))

\* The 15th and the last day of month p at the rule's time.
SemiMonthlyCandidates(r, p) ==
    {AtLocal(DayNumber(p.y, p.m, 15), r.hour, r.minute, r.second, r.tz),
     AtLocal(LastDayNumber(p.y, p.m), r.hour, r.minute, r.second, r.tz)}

\* o is what the SemiMonthly search from t has to return: a 15th or a last
\* day of a month at the rule's time, namely the earliest candidate >= t of
\* t's month or else the 15th of the month after it.
SemiMonthlyFrom(r, t, o) ==
    /\ o.off = r.tz
    /\ LocalSec(o) % SecPerDay = r.hour * 3600 + r.minute * 60 + r.second
    /\ DayOf(o) = 15 \/ MonthOf(AddDays(o, 1)) # MonthOf(o)
    /\ o = EarliestFromOrElse(
             SemiMonthlyCandidates(r, [y |-> YearOf(t), m |-> MonthOf(t)]),
             t,
             {AtLocal(DayNumber(NextMonth(YearOf(t), MonthOf(t)).y,
                                NextMonth(YearOf(t), MonthOf(t)).m, 15),
                      r.hour, r.minute, r.second, r.tz)})

\* C24: every occurrence the SemiMonthly search returns is a 15th or a last
\* day of a month at the configured time: the minimum of {15th, last day}
\* of the search instant's month that is >= the search instant, or, when
\* both lie before it, the 15th of the following month.
C24_SemiMonthly ==
    (out.op = "locate" /\ rule.fam = "SemiMonthly") =>
        /\ out.r1.ok /\ SemiMonthlyFrom(rule, out.t1, out.r1.v)
        /\ out.r2.ok /\ SemiMonthlyFrom(rule, out.t2, out.r2.v)

\* A search from 2023-12-31T01:00Z, after both candidates of December:
\* the 15th of January 2024.
C24_Witness ==
    /\ out.op = "locate" /\ rule.fam = "SemiMonthly" /\ rule.hour = 0 /\ rule.tz = 0
    /\ out.t1 = MkDateTime(2023, 12, 31, 1, 0, 0, 0)
    /\ out.r1 = Found(MkDateTime(2024, 1, 15, 0, 0, 0, 0))

(***************************************************************************)
(* EveryNDays: the alignment of the next run.                              *)
(***************************************************************************)
\* start is the earliest instant >= search_from with the rule's time of
\* day (read in start's own timezone).
AlignedFrom(r, search_from, start) ==
    /\ LocalSec(start) % SecPerDay = r.hour * 3600 + r.minute * 60 + r.second
    /\ start.t >= search_from.t
    /\ start.t - search_from.t < SecPerDay

\* C25: for EveryNDays with interval_days >= 1, next_dagrun_info returns an
\* interval that starts at the earliest instant >= the search instant with
\* the configured time of day (the search day's, or the next day's); in a
\* chain with catchup on, the start is the last interval's end, and so
\* interval_days days after the last start.
C25_EveryNDaysAligned ==
    (out.op = "next" /\ rule.fam = "EveryNDays" /\ rule.interval_days >= 1) =>
        /\ out.res.kind = "interval"
        /\ AlignedFrom(rule,
                       ResolveAfter(out.last, out.restriction,
                                    [t |-> out.clock, off |-> rule.tz]),
                       out.res.start)
        /\ (out.last.some /\ out.restriction.catchup) =>
              /\ out.res.start.t = out.last.end.t
              /\ out.res.start.t - out.last.start.t = rule.interval_days * SecPerDay

(***************************************************************************)
(* Dependence on the clock.                                                *)
(***************************************************************************)
\* C26: with restriction.catchup = True, and a last interval supplied or
\* restriction.earliest set, next_dagrun_info of every family returns the
\* same decision at any two readings of the clock.
C26_ClockIndependent ==
    (/\ out.op = "compare"
     /\ out.restriction.catchup
     /\ out.last.some \/ out.restriction.earliest.some) =>
        out.res = out.res2

(***************************************************************************)
(* The length of the period walk, and the timezone of the search instant.  *)
(***************************************************************************)
\* The walk from `after`, started at period (year, month), ends within two
\* periods: the occurrence of that period or of the one after it is >= after.
WithinTwoPeriods(r, after, year, month) ==
    \/ /\ PeriodOccurrence(r, year, month).ok
       /\ PeriodOccurrence(r, year, month).v.t >= after.t
    \/ /\ PeriodOccurrenceAt(r, NextPeriod(r, year, month)).ok
       /\ PeriodOccurrenceAt(r, NextPeriod(r, year, month)).v.t >= after.t

\* C27: for the calendar-anchored families with a valid configuration, the
\* forward walk of next_dagrun_info ends for every search instant after at
\* most two consecutive periods: the one the walk starts in and the next.
C27_TwoPeriods ==
    (out.op = "locate" /\ rule.fam \in PeriodFamilies /\ ValidRule(rule)) =>
        /\ out.r1.ok
        /\ WithinTwoPeriods(rule, out.t1, YearOf(out.t1), MonthOf(out.t1))

\* The calendar month of instant i differs between i's own timezone and
\* the rule's.
MonthDiffersInRuleZone(r, i) ==
    \/ YearOf(i) # YearOf(InTimezone(i, r.tz))
    \/ MonthOf(i) # MonthOf(InTimezone(i, r.tz))

\* C28: when the search or reference instant is expressed in a timezone in
\* which its calendar year or month differs from the one it has in the
\* rule's timezone, the month, quarter and year families still return the
\* earliest occurrence >= the instant from the search and the latest
\* occurrence <= the instant from infer_manual_data_interval.
C28_PeriodInRuleZone ==
    (/\ out.op \in {"locate", "manual"}
     /\ rule.fam \in PeriodFamilies /\ ValidRule(rule)
     /\ MonthDiffersInRuleZone(rule, out.t1)) =>
        IF out.op = "locate"
        THEN out.r1.ok /\ EarliestFrom(rule, out.t1, out.r1.v)
        ELSE /\ out.res.kind = "interval"
             /\ out.res.start.t <= out.t1.t
             /\ \A year \in {2023, 2024}, month \in 1..12 :
                   ~OccurrenceWithin(PeriodOccurrence(rule, year, month),
                                     out.res.start, out.t1)

MonthIndex(i) == YearOf(i) * 12 + MonthOf(i)

====
